---- MODULE Spec2Model ----
(***************************************************************************)
(* A model of src/mc_sim.py: the per-run simulation engine simulate_one    *)
(* (month loop, monthly tick, event draw, choice application, rent cycle,  *)
(* termination evaluation) and the operations on stats and conditions.     *)
(*                                                                         *)
(* Numbers.  The code computes with Python floats and rounds with          *)
(* int(round(x)), which rounds halves to the even integer.  The model      *)
(* computes with exact fractions <<n, d>> (d > 0) and rounds the same way. *)
(* The configuration is chosen so that every factor is such a fraction:    *)
(* recovery.alpha = a * ln 2 (exp(-alpha * p) = 1 / 2^(a*p)) and           *)
(* 1 + inflation_per_year = b^12 ((1 + infl)^(month/12) = b^month).        *)
(* The arithmetic on fractions and the loops are functions, or bind their  *)
(* intermediate values with \E x \in {e}: a value is computed once.        *)
(*                                                                         *)
(* Spec and FairSpec are one run of simulate_one, the random draws being   *)
(* any values; MCSpec is a sequence of calls of simulate_one on the one    *)
(* generator of module random; RegSpec and TickSpec are add_state,         *)
(* remove_state and the monthly tick in any order; TagSpec is tag_weights  *)
(* on any active set; WcSpec is weighted_choice on any weights; PoolSpec   *)
(* is a run on a catalog with no event for one tag; LongSpec is a run of   *)
(* one month of many turns.                                                *)
(***************************************************************************)
EXTENDS Integers, Sequences, FiniteSets, TLC

VARIABLES
    cfg,           \* the configuration of the run (cfg in the code), fixed
    stats,         \* stats: money, health, stress, family, friendship
    active,        \* active: the dict of active conditions, in insertion order
    counters,      \* counters: rent_arrears_months
    seen_counts,   \* seen_counts: event id -> times drawn (keys as in the dict)
    recent,        \* recent: the last drawn event ids
    event_counts,  \* event_counts: the Counter of drawn event ids
    month,         \* the month of the loop of simulate_one
    turn,          \* turns done in the current month
    pc,            \* position in simulate_one
    result,        \* the returned triple, <<>> before the return
    rng,           \* the state of the module-level generator of random
    tape,          \* seed -> the values the generator seeded with it has yielded
    call,          \* the seeds of the calls of simulate_one, the last the current
    log,           \* the <<seed, returned triple>> pairs of the finished calls
    tw,            \* the dict the last tag_weights call returned
    hist,          \* id -> add_state calls and ticks since the id was last absent
    catalog,       \* the events argument of simulate_one, fixed
    drawn,         \* the ids of all the events drawn in the run, in order
    arg,           \* the arguments of the function call under study
    ret            \* what that call returned, <<>> before it

vars == <<cfg, stats, active, counters, seen_counts, recent, event_counts,
          month, turn, pc, result, rng, tape, call, log, tw, hist,
          catalog, drawn, arg, ret>>

\* what no step of a run changes
fixed == <<cfg, catalog, arg, ret>>

\* what simulate_one's own steps leave alone
others == <<rng, tape, call, log, tw, hist>>

-----------------------------------------------------------------------------
(* Bounds of the model *)

\* random.random() yields u / Grain for u in 0 .. Grain-1
Grain == 16
\* exp(-alpha * penalty) is taken as 1 / 2^ExpCap once a * penalty exceeds ExpCap
ExpCap == 20

-----------------------------------------------------------------------------
(* Fractions and rounding *)

Max(a, b) == IF a >= b THEN a ELSE b
Min(a, b) == IF a <= b THEN a ELSE b

\* the greatest common divisor, on a pair of naturals
gcd[p \in Nat \X Nat] == IF p[2] = 0 THEN p[1] ELSE gcd[<<p[2], p[1] % p[2]>>]
GCD(a, b) == gcd[<<a, b>>]

Pow(b, e) == IF e <= 0 THEN 1 ELSE b ^ e

Abs(n) == IF n < 0 THEN -n ELSE n

\* fractions <<numerator, denominator>>
Frac == Int \X Int

\* the fraction p in lowest terms
rat[p \in Frac] ==
    LET g == GCD(Abs(p[1]), p[2]) IN
    IF g = 0 THEN p ELSE <<p[1] \div g, p[2] \div g>>
rmul[p \in Frac \X Frac] == rat[<<p[1][1] * p[2][1], p[1][2] * p[2][2]>>]
radd[p \in Frac \X Frac] ==
    rat[<<p[1][1] * p[2][2] + p[2][1] * p[1][2], p[1][2] * p[2][2]>>]

Rat(n, d) == rat[<<n, d>>]
RInt(n) == <<n, 1>>
RMul(a, b) == rmul[<<a, b>>]
RAdd(a, b) == radd[<<a, b>>]
RLeq(a, b) == a[1] * b[2] <= b[1] * a[2]
RLess(a, b) == a[1] * b[2] < b[1] * a[2]

\* int(round(x)): to the nearest integer, a half to the even one
int_round[x \in Frac] ==
    LET q == x[1] \div x[2]
        r == x[1] % x[2]
    IN  IF 2 * r < x[2] THEN q
        ELSE IF 2 * r > x[2] THEN q + 1
        ELSE IF q % 2 = 0 THEN q ELSE q + 1
IntRound(x) == int_round[x]

\* d.get(key, default)
Get(d, key, default) == IF key \in DOMAIN d THEN d[key] ELSE default

\* None, and a value that is not None
None == <<>>
Some(n) == <<n>>

-----------------------------------------------------------------------------
(* The inputs of simulate_one: config, state registry, event catalog *)

\* cfg["max_months"] <= MaxMonths, cfg["turns_per_month"] <= MaxTurns, and a run
\* draws at most MaxDraws events (max_months * turns_per_month <= MaxDraws)
MaxMonths == 2
MaxTurns == 2
MaxDraws == 2

TAGS == <<"job", "debt", "housing", "health", "social", "admin", "car", "money">>

\* the keys apply_effects clamps
ClampedKeys == {"health", "stress", "family", "friendship"}

\* the keys effective_gain is applied to
RecoverableKeys == {"health", "family", "friendship"}

\* A config.json: the multipliers are fractions, alpha is alpha_ln2 * ln 2
Config(start_money, strikes, months, turns) ==
    [attrs |-> [money      |-> [start |-> start_money],
                health     |-> [start |-> 70],
                stress     |-> [start |-> 30],
                family     |-> [start |-> 60],
                friendship |-> [start |-> 50]],
     recovery |-> [alpha_ln2 |-> 1,
                   soft_floor |-> 40,
                   monthly_passive |-> [health_base_regen |-> 2,
                                        stress_base_decay |-> 3,
                                        relationship_base_regen |-> 1]],
     economy |-> [rent |-> 100, inflation_per_year |-> 4095],
     balance |-> [pos_money_mult |-> <<3, 2>>,
                  neg_money_mult |-> <<5, 4>>,
                  stress_mult |-> <<3, 2>>],
     draw |-> [anti_repeat_beta |-> 1,
               recent_window |-> 2,
               recent_penalty |-> <<1, 2>>],
     thresholds |-> [money_hard |-> -100,
                     eviction_months |-> 1,
                     collections_strikes |-> strikes],
     max_months |-> months,
     turns_per_month |-> turns]

\* the shapes <<max_months, turns_per_month>> of the runs checked
Shapes == {sh \in (1 .. MaxMonths) \X (1 .. MaxTurns) : sh[1] * sh[2] <= MaxDraws}

Configs == {Config(m, s, sh[1], sh[2]) :
              m \in {-150, 150}, s \in {1, 2}, sh \in Shapes}

\* A states.json: the registry of condition definitions
states ==
    << [id |-> "S_RENT_DUE", type |-> "transient"],
       [id |-> "S_PAYCHECK", type |-> "transient",
        monthly_effect |-> [money |-> 200]],
       [id |-> "S_RENT_ARREARS", type |-> "counter", duration |-> 1,
        monthly_effect |-> [stress |-> 4]],
       [id |-> "S_LAYOFF", type |-> "transient", duration |-> 2,
        monthly_effect |-> [stress |-> 2, karma |-> -1]],
       [id |-> "S_HIGH_INTEREST_LOAN", type |-> "transient", duration |-> 3,
        stacking |-> "refresh", monthly_effect |-> [money |-> -40]],
       [id |-> "S_INJURED", type |-> "transient", duration |-> 3,
        stacking |-> "extend", monthly_effect |-> [health |-> -6]],
       [id |-> "S_TAX_DUE", type |-> "transient", duration |-> 1,
        stacking |-> "extend"] >>

\* state_index = {s["id"]: s for s in states}
state_index == [sid \in {states[i].id : i \in DOMAIN states} |->
                  states[CHOOSE i \in DOMAIN states : states[i].id = sid]]

\* An events.json: the event catalog, one pool per tag
events ==
    << [id |-> "E_LAYOFF", primary_tag |-> "job",
        choices |-> << [effects |-> [stress |-> 10],
                        add_states |-> <<"S_LAYOFF">>],
                       [effects |-> [money |-> 100]] >>],
       [id |-> "E_LOAN", primary_tag |-> "debt", base_weight |-> <<2, 1>>,
        choices |-> << [effects |-> [money |-> 200],
                        add_states |-> <<"S_HIGH_INTEREST_LOAN">>],
                       [effects |-> [money |-> -400, stress |-> 5]] >>],
       [id |-> "E_LANDLORD", primary_tag |-> "housing",
        choices |-> << [action |-> "PAY_RENT",
                        remove_states |-> <<"S_RENT_DUE", "S_RENT_ARREARS">>],
                       [effects |-> [stress |-> 3]] >>],
       [id |-> "E_ACCIDENT", primary_tag |-> "health",
        choices |-> << [effects |-> [health |-> -20],
                        add_states |-> <<"S_INJURED">>],
                       [effects |-> [health |-> -150]] >>],
       [id |-> "E_CHECKUP", primary_tag |-> "health",
        choices |-> << [effects |-> [health |-> 150, money |-> -50]] >>],
       [id |-> "E_PARTY", primary_tag |-> "social",
        choices |-> << [effects |-> [friendship |-> 7, family |-> 300,
                                     stress |-> -200]] >>],
       [id |-> "E_PAPERWORK", primary_tag |-> "admin",
        choices |-> << [effects |-> [stress |-> 3, luck |-> 5]] >>],
       [id |-> "E_CAR", primary_tag |-> "car",
        choices |-> << [effects |-> [money |-> -50]] >>],
       [id |-> "E_BONUS", primary_tag |-> "money",
        choices |-> << [effects |-> [money |-> 50]] >>] >>

EventIds == {events[i].id : i \in DOMAIN events}

\* the tag multipliers of simulate_one, as fractions
state_tag_mult ==
    [S_LAYOFF |-> [job |-> <<8, 5>>, debt |-> <<27, 20>>, money |-> <<9, 10>>,
                   social |-> <<19, 20>>],
     S_RENT_ARREARS |-> [housing |-> <<17, 10>>, debt |-> <<5, 4>>,
                         job |-> <<11, 10>>],
     S_HIGH_INTEREST_LOAN |-> [debt |-> <<31, 20>>, money |-> <<17, 20>>],
     S_CREDIT_CARD_DEBT |-> [debt |-> <<5, 4>>, money |-> <<23, 25>>],
     S_INJURED |-> [health |-> <<31, 20>>, job |-> <<19, 20>>],
     S_HEALTH_SCARE |-> [health |-> <<27, 20>>, admin |-> <<11, 10>>],
     S_IMMIGRATION_ISSUE |-> [admin |-> <<31, 20>>, job |-> <<11, 10>>],
     S_CAR_BROKEN |-> [car |-> <<9, 5>>, job |-> <<21, 20>>],
     S_SOCIAL_ISOLATION |-> [social |-> <<29, 20>>, health |-> <<11, 10>>],
     S_WINDFALL_BUFFER |-> [debt |-> <<22, 25>>, housing |-> <<23, 25>>,
                            money |-> <<28, 25>>],
     S_RENT_DUE |-> [housing |-> <<11, 5>>],
     S_TAX_DUE |-> [admin |-> <<2, 1>>],
     S_TRAFFIC_TICKET |-> [car |-> <<8, 5>>, admin |-> <<23, 20>>],
     S_COLLECTIONS_NOTICE |-> [debt |-> <<7, 5>>, admin |-> <<6, 5>>]]

-----------------------------------------------------------------------------
(* Scaling: clamp, effective_gain, cost_factor, wage_factor *)

clamp(v, lo, hi) == Max(lo, Min(hi, v))

\* clamp on fractions
clampRat(v, lo, hi) == IF RLess(v, lo) THEN lo ELSE IF RLess(hi, v) THEN hi ELSE v

\* the b with b^12 = x, so that x ** (month / 12.0) = b^month
Root12(x) == CHOOSE b \in 1 .. 4 : Pow(b, 12) = x

\* base_gain is a fraction; exp(-alpha * penalty) = 1 / 2^(alpha_ln2 * penalty)
effective_gain(base_gain, stat_value, c) ==
    IF base_gain[1] <= 0 THEN base_gain
    ELSE LET alpha == c.recovery.alpha_ln2
             floor == c.recovery.soft_floor
             penalty == Max(0, floor - stat_value)
         IN  RMul(base_gain, <<1, Pow(2, Min(ExpCap, alpha * penalty))>>)

cost_factor(m, c) ==
    LET infl == Get(c.economy, "inflation_per_year", 0)
    IN  RInt(Pow(Root12(1 + infl), m))

wage_factor(m, c) ==
    LET wg == Get(c.economy, "wage_growth_per_year", 0)
    IN  RInt(Pow(Root12(1 + wg), m))

-----------------------------------------------------------------------------
(* Stats *)

EmptyDict == [k \in {} |-> 0]

\* apply_effects without the test k not in stats: an unknown key is added
apply_effects_adding(st, effects) ==
    [k \in DOMAIN st \cup DOMAIN effects |->
        IF k \notin DOMAIN st THEN effects[k]
        ELSE IF k \notin DOMAIN effects THEN st[k]
        ELSE IF k \in ClampedKeys THEN clamp(st[k] + effects[k], 0, 100)
        ELSE st[k] + effects[k]]

\* apply_effects without the clamp
apply_effects_unclamped(st, effects) ==
    [k \in DOMAIN st |->
        IF k \notin DOMAIN effects THEN st[k] ELSE st[k] + effects[k]]

apply_effects(st, effects) ==
    [k \in DOMAIN st |->
        IF k \notin DOMAIN effects THEN st[k]
        ELSE IF k \in ClampedKeys THEN clamp(st[k] + effects[k], 0, 100)
        ELSE st[k] + effects[k]]

monthly_passive(st, c) ==
    LET mp == c.recovery.monthly_passive
        base_h == Rat(mp.health_base_regen * (140 - st.stress), 140)
        dh == effective_gain(base_h, st.health, c)
        \* 0.6 + health/140 + friendship/250 = (2100 + 25 h + 14 f) / 3500
        base_s == Rat(mp.stress_base_decay
                        * (2100 + 25 * st.health + 14 * st.friendship), 3500)
        ds == <<-base_s[1], base_s[2]>>
        base_r == Rat(mp.relationship_base_regen * (140 - st.stress), 140)
        dr == effective_gain(base_r, st.family, c)
        df == effective_gain(base_r, st.friendship, c)
    IN  apply_effects(st, [health |-> IntRound(dh), stress |-> IntRound(ds),
                           family |-> IntRound(dr), friendship |-> IntRound(df)])

-----------------------------------------------------------------------------
(* Active conditions: a dict id -> {"remaining": ...} in insertion order *)

Keys(act) == [i \in DOMAIN act |-> act[i].id]
Has(act, sid) == \E i \in DOMAIN act : act[i].id = sid
At(act, sid) == CHOOSE i \in DOMAIN act : act[i].id = sid
Remaining(act, sid) == act[At(act, sid)].remaining

\* active.setdefault(sid, {"remaining": None})
setdefault(act, sid) ==
    IF Has(act, sid) THEN act ELSE Append(act, [id |-> sid, remaining |-> None])

\* add_state without the test for the counter type
add_state_no_counter(act, sdef) ==
    LET sid == sdef.id IN
    IF "duration" \notin DOMAIN sdef THEN setdefault(act, sid)
    ELSE LET dur == sdef.duration IN
         IF Has(act, sid)
         THEN LET behavior == Get(sdef, "stacking", "refresh")
                  i == At(act, sid)
              IN  IF behavior = "extend" /\ act[i].remaining # None
                  THEN [act EXCEPT ![i].remaining = Some(@[1] + dur)]
                  ELSE [act EXCEPT ![i].remaining = Some(dur)]
         ELSE Append(act, [id |-> sid, remaining |-> Some(dur)])

\* add_state that resets the duration whatever the stacking policy
add_state_refresh(act, sdef) ==
    LET sid == sdef.id IN
    IF sdef.type = "counter" \/ "duration" \notin DOMAIN sdef
    THEN setdefault(act, sid)
    ELSE IF Has(act, sid)
         THEN [act EXCEPT ![At(act, sid)].remaining = Some(sdef.duration)]
         ELSE Append(act, [id |-> sid, remaining |-> Some(sdef.duration)])

\* add_state that adds the duration whatever the stacking policy
add_state_extend(act, sdef) ==
    LET sid == sdef.id IN
    IF sdef.type = "counter" \/ "duration" \notin DOMAIN sdef
    THEN setdefault(act, sid)
    ELSE IF Has(act, sid) /\ Remaining(act, sid) # None
         THEN [act EXCEPT ![At(act, sid)].remaining = Some(@[1] + sdef.duration)]
         ELSE add_state_refresh(act, sdef)

add_state(act, sdef) ==
    LET sid == sdef.id IN
    IF sdef.type = "counter" THEN setdefault(act, sid)
    ELSE IF "duration" \notin DOMAIN sdef THEN setdefault(act, sid)
    ELSE LET dur == sdef.duration IN
         IF Has(act, sid)
         THEN LET behavior == Get(sdef, "stacking", "refresh")
                  i == At(act, sid)
              IN  IF behavior = "extend" /\ act[i].remaining # None
                  THEN [act EXCEPT ![i].remaining = Some(@[1] + dur)]
                  ELSE [act EXCEPT ![i].remaining = Some(dur)]
         ELSE Append(act, [id |-> sid, remaining |-> Some(dur)])

remove_state(act, sid) == SelectSeq(act, LAMBDA e : e.id # sid)

RECURSIVE add_states(_, _)
add_states(act, sids) ==
    IF sids = <<>> THEN act
    ELSE add_states(add_state(act, state_index[Head(sids)]), Tail(sids))

RECURSIVE remove_states(_, _)
remove_states(act, sids) ==
    IF sids = <<>> THEN act
    ELSE remove_states(remove_state(act, Head(sids)), Tail(sids))

-----------------------------------------------------------------------------
(* apply_choice *)

\* the scaled effects of a choice (the eff that apply_choice hands to apply_effects)
choice_effects(st, ch, act, c, m) ==
    LET eff0 == Get(ch, "effects", EmptyDict)
        cf == cost_factor(m, c)
        wf == wage_factor(m, c)
        rent == IntRound(RMul(RInt(c.economy.rent), cf))
        eff1 == IF Get(ch, "action", "") = "PAY_RENT"
                THEN [k \in DOMAIN eff0 \cup {"money"} |->
                        IF k = "money" THEN Get(eff0, "money", 0) - rent
                        ELSE eff0[k]]
                ELSE eff0
        eff2 == [k \in DOMAIN eff1 |->
                   IF k \in RecoverableKeys /\ eff1[k] > 0
                   THEN IntRound(effective_gain(RInt(eff1[k]), st[k], c))
                   ELSE eff1[k]]
        money == LET v == eff2["money"] IN
                 IF v > 0
                 THEN LET x == RMul(RMul(RInt(v), c.balance.pos_money_mult), wf)
                      IN  IF Has(act, "S_HIGH_INTEREST_LOAN")
                          THEN IntRound(RMul(x, <<17, 20>>))
                          ELSE IntRound(x)
                 ELSE IntRound(RMul(RMul(RInt(v), c.balance.neg_money_mult), cf))
    IN  [k \in DOMAIN eff2 |->
           IF k = "money" THEN money
           ELSE IF k = "stress"
                THEN IntRound(RMul(RInt(eff2[k]), c.balance.stress_mult))
                ELSE eff2[k]]

\* the remove_states loop without the reset of the counter
choice_counters_kept(cnt, sids) == cnt

\* the counters after the remove_states loop of apply_choice
choice_counters(cnt, sids) ==
    IF \E i \in DOMAIN sids : sids[i] = "S_RENT_ARREARS"
    THEN [cnt EXCEPT !.rent_arrears_months = 0]
    ELSE cnt

apply_choice(st, ch, act, cnt, c, m) ==
    [stats |-> apply_effects(st, choice_effects(st, ch, act, c, m)),
     active |-> remove_states(add_states(act, Get(ch, "add_states", <<>>)),
                              Get(ch, "remove_states", <<>>)),
     counters |-> choice_counters(cnt, Get(ch, "remove_states", <<>>))]

-----------------------------------------------------------------------------
(* apply_state_monthly *)

\* eff2 of apply_state_monthly for one condition
monthly_effects(sdef, st, act, c, m) ==
    LET eff == Get(sdef, "monthly_effect", EmptyDict)
        cf == cost_factor(m, c)
        wf == wage_factor(m, c)
        eff2 == [k \in DOMAIN eff |->
                   IF k \in RecoverableKeys /\ eff[k] > 0
                   THEN IntRound(effective_gain(RInt(eff[k]), st[k], c))
                   ELSE IF k = "money" /\ eff[k] > 0
                           /\ Has(act, "S_HIGH_INTEREST_LOAN")
                        THEN IntRound(RMul(RInt(eff[k]), <<17, 20>>))
                        ELSE eff[k]]
    IN  [k \in DOMAIN eff2 |->
           IF k = "money"
           THEN IF eff2[k] > 0
                THEN IntRound(RMul(RMul(RInt(eff2[k]), c.balance.pos_money_mult), wf))
                ELSE IntRound(RMul(RMul(RInt(eff2[k]), c.balance.neg_money_mult), cf))
           ELSE IF k = "stress"
                THEN IntRound(RMul(RInt(eff2[k]), c.balance.stress_mult))
                ELSE eff2[k]]

\* the iteration that removes a condition only when its remaining is below zero
monthly_step_late(s, sid, c, m) ==
    LET sdef == state_index[sid]
        st1 == IF sid = "S_PAYCHECK" /\ Has(s.active, "S_LAYOFF")
               THEN s.stats
               ELSE apply_effects(s.stats,
                                  monthly_effects(sdef, s.stats, s.active, c, m))
    IN  IF sdef.type = "counter"
        THEN [stats |-> st1, active |-> s.active,
              counters |-> IF sid = "S_RENT_ARREARS"
                           THEN [s.counters EXCEPT !.rent_arrears_months = @ + 1]
                           ELSE s.counters]
        ELSE LET rem == Remaining(s.active, sid) IN
             [stats |-> st1,
              active |-> IF rem = None THEN s.active
                         ELSE IF rem[1] - 1 < 0 THEN remove_state(s.active, sid)
                         ELSE [s.active EXCEPT ![At(s.active, sid)].remaining
                                                  = Some(rem[1] - 1)],
              counters |-> s.counters]

\* one iteration of the loop over list(active_states.keys())
monthly_step(s, sid, c, m) ==
    LET sdef == state_index[sid]
        st1 == IF sid = "S_PAYCHECK" /\ Has(s.active, "S_LAYOFF")
               THEN s.stats
               ELSE apply_effects(s.stats,
                                  monthly_effects(sdef, s.stats, s.active, c, m))
    IN  IF sdef.type = "counter"
        THEN [stats |-> st1, active |-> s.active,
              counters |-> IF sid = "S_RENT_ARREARS"
                           THEN [s.counters EXCEPT !.rent_arrears_months = @ + 1]
                           ELSE s.counters]
        ELSE LET rem == Remaining(s.active, sid) IN
             [stats |-> st1,
              active |-> IF rem = None THEN s.active
                         ELSE IF rem[1] - 1 <= 0 THEN remove_state(s.active, sid)
                         ELSE [s.active EXCEPT ![At(s.active, sid)].remaining
                                                  = Some(rem[1] - 1)],
              counters |-> s.counters]

\* the loop over sids, from the loop state s; s1 is the loop state after the
\* iteration for Head(sids)
RECURSIVE monthly_loop(_, _, _, _)
monthly_loop(s, sids, c, m) ==
    IF sids = <<>> THEN s
    ELSE CHOOSE r \in {monthly_loop(s1, Tail(sids), c, m) :
                          s1 \in {monthly_step(s, Head(sids), c, m)}} : TRUE

apply_state_monthly(st, act, cnt, c, m) ==
    monthly_loop([stats |-> st, active |-> act, counters |-> cnt], Keys(act), c, m)

-----------------------------------------------------------------------------
(* month_end_rent, fatal_strikes *)

rent_of(m, c) == IntRound(RMul(RInt(c.economy.rent), cost_factor(m, c)))

\* month_end_rent that takes what money there is when it does not cover the rent
month_end_rent_partial(st, act, c, m) ==
    LET rent == rent_of(m, c)
        paid == Has(act, "S_RENT_DUE") /\ st.money >= rent
        st1 == IF paid THEN apply_effects(st, [money |-> -rent, stress |-> -1])
               ELSE IF Has(act, "S_RENT_DUE") /\ st.money > 0
                    THEN apply_effects(st, [money |-> -st.money])
                    ELSE st
        act1 == IF ~Has(act, "S_RENT_DUE") THEN act
                ELSE IF paid THEN remove_state(act, "S_RENT_DUE")
                ELSE add_state(remove_state(act, "S_RENT_DUE"),
                               state_index["S_RENT_ARREARS"])
    IN  [stats |-> st1, active |-> add_state(act1, state_index["S_RENT_DUE"])]

\* month_end_rent that installs S_RENT_DUE only after a check with rent due
month_end_rent_no_reinstall(st, act, c, m) ==
    LET rent == rent_of(m, c)
        paid == Has(act, "S_RENT_DUE") /\ st.money >= rent
        st1 == IF paid THEN apply_effects(st, [money |-> -rent, stress |-> -1])
               ELSE st
    IN  [stats |-> st1,
         active |-> IF ~Has(act, "S_RENT_DUE") THEN act
                    ELSE IF paid
                         THEN add_state(remove_state(act, "S_RENT_DUE"),
                                        state_index["S_RENT_DUE"])
                         ELSE add_state(add_state(remove_state(act, "S_RENT_DUE"),
                                                  state_index["S_RENT_ARREARS"]),
                                        state_index["S_RENT_DUE"])]

\* month_end_rent without the test for S_RENT_DUE
month_end_rent_unguarded(st, act, c, m) ==
    LET rent == rent_of(m, c)
        paid == st.money >= rent
        st1 == IF paid THEN apply_effects(st, [money |-> -rent, stress |-> -1])
               ELSE st
        act1 == IF paid THEN remove_state(act, "S_RENT_DUE")
                ELSE add_state(remove_state(act, "S_RENT_DUE"),
                               state_index["S_RENT_ARREARS"])
    IN  [stats |-> st1, active |-> add_state(act1, state_index["S_RENT_DUE"])]

\* month_end_rent with a payment that also removes S_RENT_ARREARS
month_end_rent_clearing(st, act, c, m) ==
    LET rent == rent_of(m, c)
        paid == Has(act, "S_RENT_DUE") /\ st.money >= rent
        st1 == IF paid THEN apply_effects(st, [money |-> -rent, stress |-> -1])
               ELSE st
        act1 == IF ~Has(act, "S_RENT_DUE") THEN act
                ELSE IF paid
                     THEN remove_state(remove_state(act, "S_RENT_DUE"),
                                       "S_RENT_ARREARS")
                     ELSE add_state(remove_state(act, "S_RENT_DUE"),
                                    state_index["S_RENT_ARREARS"])
    IN  [stats |-> st1, active |-> add_state(act1, state_index["S_RENT_DUE"])]

month_end_rent(st, act, c, m) ==
    LET rent == rent_of(m, c)
        paid == Has(act, "S_RENT_DUE") /\ st.money >= rent
        st1 == IF paid THEN apply_effects(st, [money |-> -rent, stress |-> -1])
               ELSE st
        act1 == IF ~Has(act, "S_RENT_DUE") THEN act
                ELSE IF paid THEN remove_state(act, "S_RENT_DUE")
                ELSE add_state(remove_state(act, "S_RENT_DUE"),
                               state_index["S_RENT_ARREARS"])
    IN  [stats |-> st1, active |-> add_state(act1, state_index["S_RENT_DUE"])]

\* fatal_strikes that reports whether any signal holds
fatal_strikes_any(st, act, cnt, c) ==
    IF \/ st.money < c.thresholds.money_hard
       \/ (Has(act, "S_RENT_ARREARS")
             /\ cnt.rent_arrears_months >= c.thresholds.eviction_months)
       \/ st.health <= 0 \/ st.stress >= 100 \/ st.family <= 0
       \/ st.friendship <= 0
    THEN 1 ELSE 0

\* fatal_strikes without the money signal
fatal_strikes_no_money(st, act, cnt, c) ==
    (IF Has(act, "S_RENT_ARREARS")
          /\ cnt.rent_arrears_months >= c.thresholds.eviction_months
       THEN 1 ELSE 0)
    + (IF st.health <= 0 \/ st.stress >= 100 \/ st.family <= 0
          \/ st.friendship <= 0
       THEN 1 ELSE 0)

fatal_strikes(st, act, cnt, c) ==
    (IF st.money < c.thresholds.money_hard THEN 1 ELSE 0)
    + (IF Has(act, "S_RENT_ARREARS")
          /\ cnt.rent_arrears_months >= c.thresholds.eviction_months
       THEN 1 ELSE 0)
    + (IF st.health <= 0 \/ st.stress >= 100 \/ st.family <= 0
          \/ st.friendship <= 0
       THEN 1 ELSE 0)

-----------------------------------------------------------------------------
(* The event draw *)

\* the product of the multipliers of tag t over the active ids, in order
RECURSIVE tag_product(_, _)
tag_product(sids, t) ==
    IF sids = <<>> THEN RInt(1)
    ELSE LET mods == Get(state_tag_mult, sids[Len(sids)], EmptyDict)
         IN  RMul(tag_product(SubSeq(sids, 1, Len(sids) - 1), t),
                  Get(mods, t, RInt(1)))

TagSet == {TAGS[i] : i \in DOMAIN TAGS}

\* tag_weights without the clamp
tag_weights_unclamped(active_states) ==
    [t \in TagSet |-> tag_product(Keys(active_states), t)]

\* the dict w of tag_weights: tag -> weight
tag_weights(active_states) ==
    [t \in TagSet |->
        clampRat(tag_product(Keys(active_states), t), <<3, 4>>, <<31, 20>>)]

\* the sum of the first i weights (sum(weights) for i = len(weights))
RECURSIVE cumulative(_, _)
cumulative(weights, i) ==
    IF i = 0 THEN RInt(0) ELSE RAdd(cumulative(weights, i - 1), weights[i])

\* the loop of weighted_choice: p = <<weights, r, i, acc>>, the loop being about
\* to add weights[i] to acc; the index at which it returns, 0 if it runs out
first_hit[p \in Seq(Frac) \X Frac \X Nat \X Frac] ==
    IF p[3] > Len(p[1]) THEN 0
    ELSE LET acc == RAdd(p[4], p[1][p[3]]) IN
         IF RLeq(p[2], acc) THEN p[3]
         ELSE first_hit[<<p[1], p[2], p[3] + 1, acc>>]

\* the loop of weighted_choice with the test r < acc
first_hit_strict[p \in Seq(Frac) \X Frac \X Nat \X Frac] ==
    IF p[3] > Len(p[1]) THEN 0
    ELSE LET acc == RAdd(p[4], p[1][p[3]]) IN
         IF RLess(p[2], acc) THEN p[3]
         ELSE first_hit_strict[<<p[1], p[2], p[3] + 1, acc>>]

\* weighted_choice that returns on r < acc
weighted_choice_strict(items, weights, u) ==
    LET total == cumulative(weights, Len(weights))
        r == RMul(Rat(u, Grain), total)
        zipped == SubSeq(weights, 1, Min(Len(items), Len(weights)))
        i == first_hit_strict[<<zipped, r, 1, RInt(0)>>]
    IN  IF i > 0 THEN items[i] ELSE items[Len(items)]

\* u / Grain is the value random.random() returns
weighted_choice(items, weights, u) ==
    LET total == cumulative(weights, Len(weights))
        r == RMul(Rat(u, Grain), total)
        zipped == SubSeq(weights, 1, Min(Len(items), Len(weights)))
        i == first_hit[<<zipped, r, 1, RInt(0)>>]
    IN  IF i > 0 THEN items[i] ELSE items[Len(items)]

\* pools[tag], for the tags that have events
build_pools(evs) ==
    [t \in {evs[i].primary_tag : i \in DOMAIN evs} |->
        SelectSeq(evs, LAMBDA ev : ev.primary_tag = t)]

\* recent_set that takes every id of the recent list, whatever the window
recent_set_all(recent_list, recent_window) ==
    IF recent_window > 0
    THEN {recent_list[i] : i \in DOMAIN recent_list}
    ELSE {}

\* recent_list[-recent_window:] as a set
recent_set(recent_list, recent_window) ==
    IF recent_window > 0
    THEN {recent_list[i] : i \in Max(1, Len(recent_list) - recent_window + 1)
                                   .. Len(recent_list)}
    ELSE {}

\* the weight draw_event gives a candidate
event_weight(ev, seen, recent_list, c) ==
    LET n == Get(seen, ev.id, 0)
        bw == Get(ev, "base_weight", RInt(1))
        w == Rat(bw[1], bw[2] * Pow(1 + n, c.draw.anti_repeat_beta))
    IN  IF ev.id \in recent_set(recent_list, c.draw.recent_window)
        THEN RMul(w, c.draw.recent_penalty)
        ELSE w

\* the tag draw_event draws; u1 / Grain is the value of random.random()
draw_tag(w, u1) ==
    weighted_choice(TAGS, [i \in DOMAIN TAGS |-> w[TAGS[i]]], u1)

\* the event draw_event draws from the pool; u2 / Grain is the second value
draw_in_pool(pool, seen, recent_list, c, u2) ==
    LET weights == [i \in DOMAIN pool |->
                      event_weight(pool[i], seen, recent_list, c)]
    IN  weighted_choice(pool, weights, u2)

draw_event(pools, active_states, seen, recent_list, c, u1, u2) ==
    draw_in_pool(pools[draw_tag(tag_weights(active_states), u1)],
                 seen, recent_list, c, u2)

\* random.choice(seq), u / Grain being the uniform draw behind it
random_choice(seq, u) == seq[(u * Len(seq)) \div Grain + 1]

-----------------------------------------------------------------------------
(* simulate_one *)

\* the length of the recent list simulate_one keeps
RecentCap == 40

Draws == 0 .. Grain - 1

\* d[key] = 1, a repeat not counted
Incremented_once(d, key) ==
    [k \in DOMAIN d \cup {key} |-> IF k = key THEN 1 ELSE d[k]]

\* d[key] = d.get(key, 0) + 1
Incremented(d, key) ==
    [k \in DOMAIN d \cup {key} |-> IF k = key THEN Get(d, key, 0) + 1 ELSE d[k]]

\* the last n elements, seq[-n:]
LastN(seq, n) == SubSeq(seq, Max(1, Len(seq) - n + 1), Len(seq))

\* the triple simulate_one returns
Returned(ok, seen, ec) == <<ok, Cardinality(DOMAIN seen), ec>>

\* the stats and the conditions of simulate_one before the month loop
\* (lines 232-246)
start_stats(c) ==
    [k \in {"money", "health", "stress", "family", "friendship"} |->
        c.attrs[k].start]
start_active ==
    add_state(add_state(<<>>, state_index["S_RENT_DUE"]),
              state_index["S_PAYCHECK"])

\* the seeds main hands to simulate_one
MaxSeeds == 2
Seeds == 1 .. MaxSeeds

\* the state on entry to the month loop (lines 227-246)
Init ==
    /\ cfg \in Configs
    /\ stats = start_stats(cfg)
    /\ active = start_active
    /\ counters = [rent_arrears_months |-> 0]
    /\ seen_counts = EmptyDict
    /\ recent = <<>>
    /\ event_counts = EmptyDict
    /\ month = 0
    /\ turn = 0
    /\ pc = "month"
    /\ result = <<>>
    /\ rng = <<>>
    /\ tape = [s \in Seeds |-> <<>>]
    /\ call = <<>>
    /\ log = {}
    /\ tw = EmptyDict
    /\ hist = EmptyDict
    /\ catalog = events
    /\ drawn = <<>>
    /\ arg = <<>>
    /\ ret = <<>>

\* the head of a month: monthly_passive, apply_state_monthly
MonthTick ==
    /\ pc = "month"
    /\ month < cfg.max_months
    /\ \E st1 \in {monthly_passive(stats, cfg)} :
       \E s \in {apply_state_monthly(st1, active, counters, cfg, month)} :
           /\ stats' = s.stats
           /\ active' = s.active
           /\ counters' = s.counters
    /\ turn' = 0
    /\ pc' = IF cfg.turns_per_month > 0 THEN "turn" ELSE "rent"
    /\ UNCHANGED <<fixed, seen_counts, recent, drawn, event_counts, month, result, others>>

\* a turn that does not evaluate the strikes after the choice
TurnWith_unchecked(ev, ch) ==
    \E s \in {apply_choice(stats, ch, active, counters, cfg, month)} :
    LET rec1 == Append(recent, ev.id)
    IN  /\ stats' = s.stats
        /\ active' = s.active
        /\ counters' = s.counters
        /\ seen_counts' = Incremented(seen_counts, ev.id)
        /\ event_counts' = Incremented(event_counts, ev.id)
        /\ recent' = IF Len(rec1) > RecentCap THEN LastN(rec1, RecentCap) ELSE rec1
        /\ drawn' = Append(drawn, ev.id)
        /\ turn' = turn + 1
        /\ pc' = IF turn + 1 < cfg.turns_per_month THEN "turn" ELSE "rent"
        /\ UNCHANGED <<fixed, month, result>>

\* one turn with the event ev drawn and the choice ch picked: record the
\* event, apply the choice, evaluate
TurnWith(ev, ch) ==
    \E s \in {apply_choice(stats, ch, active, counters, cfg, month)} :
    LET seen1 == Incremented(seen_counts, ev.id)
        ec1 == Incremented(event_counts, ev.id)
        rec1 == Append(recent, ev.id)
        failed == fatal_strikes(s.stats, s.active, s.counters, cfg)
                    >= cfg.thresholds.collections_strikes
    IN  /\ stats' = s.stats
        /\ active' = s.active
        /\ counters' = s.counters
        /\ seen_counts' = seen1
        /\ event_counts' = ec1
        /\ recent' = IF Len(rec1) > RecentCap THEN LastN(rec1, RecentCap) ELSE rec1
        /\ drawn' = Append(drawn, ev.id)
        /\ IF failed
           THEN /\ pc' = "Failed"
                /\ result' = Returned(FALSE, seen1, ec1)
                /\ turn' = turn
           ELSE /\ turn' = turn + 1
                /\ pc' = IF turn + 1 < cfg.turns_per_month THEN "turn" ELSE "rent"
                /\ result' = result
        /\ UNCHANGED <<fixed, month>>

\* pools[tag] raises KeyError: simulate_one ends with the exception, nothing
\* is returned
KeyError ==
    /\ pc' = "KeyError"
    /\ UNCHANGED <<fixed, stats, active, counters, seen_counts, recent, drawn,
                   event_counts, month, turn, result>>

\* one turn, the three random draws being any values
Turn ==
    /\ pc = "turn"
    /\ \E w \in {tag_weights(active)} :
       \E pools \in {build_pools(catalog)} :
       \E tag \in {draw_tag(w, u1) : u1 \in Draws} :
         IF tag \notin DOMAIN pools THEN KeyError
         ELSE \E pool \in {pools[tag]} :
              \E ev \in {draw_in_pool(pool, seen_counts, recent, cfg, u2) :
                            u2 \in Draws} :
                \E ch \in {random_choice(ev.choices, u3) : u3 \in Draws} :
                  TurnWith(ev, ch)
    /\ UNCHANGED others

\* the end of a month: month_end_rent, evaluate
RentCycle ==
    /\ pc = "rent"
    /\ \E s \in {month_end_rent(stats, active, cfg, month)} :
       LET failed == fatal_strikes(s.stats, s.active, counters, cfg)
                       >= cfg.thresholds.collections_strikes
       IN  /\ stats' = s.stats
           /\ active' = s.active
           /\ IF failed
              THEN /\ pc' = "Failed"
                   /\ result' = Returned(FALSE, seen_counts, event_counts)
                   /\ month' = month
              ELSE /\ pc' = "month"
                   /\ month' = month + 1
                   /\ result' = result
    /\ UNCHANGED <<fixed, counters, seen_counts, recent, drawn, event_counts, turn, others>>

\* a return of True with one month still to run
Complete_early ==
    /\ pc = "month"
    /\ month + 1 >= cfg.max_months
    /\ pc' = "Completed"
    /\ result' = Returned(TRUE, seen_counts, event_counts)
    /\ UNCHANGED <<fixed, stats, active, counters, seen_counts, recent, drawn,
                   event_counts, month, turn, others>>

\* the month loop is exhausted: return True
Complete ==
    /\ pc = "month"
    /\ month >= cfg.max_months
    /\ pc' = "Completed"
    /\ result' = Returned(TRUE, seen_counts, event_counts)
    /\ UNCHANGED <<fixed, stats, active, counters, seen_counts, recent, drawn,
                   event_counts, month, turn, others>>

Next == MonthTick \/ Turn \/ RentCycle \/ Complete

Spec == Init /\ [][Next]_vars

\* every enabled step of a run is eventually taken: the loop of simulate_one
\* has no suspension point
FairSpec == Spec /\ WF_vars(Next)

-----------------------------------------------------------------------------
(* A run on a catalog that has no event for one tag (PoolSpec) *)

\* the catalog without the events of tag t
CatalogWithout(t) == SelectSeq(events, LAMBDA ev : ev.primary_tag # t)

PoolInit ==
    /\ cfg \in Configs
    /\ stats = start_stats(cfg)
    /\ active = start_active
    /\ counters = [rent_arrears_months |-> 0]
    /\ seen_counts = EmptyDict
    /\ recent = <<>>
    /\ event_counts = EmptyDict
    /\ month = 0
    /\ turn = 0
    /\ pc = "month"
    /\ result = <<>>
    /\ rng = <<>>
    /\ tape = [s \in Seeds |-> <<>>]
    /\ call = <<>>
    /\ log = {}
    /\ tw = EmptyDict
    /\ hist = EmptyDict
    /\ catalog \in {CatalogWithout(t) : t \in {"car", "money"}}
    /\ drawn = <<>>
    /\ arg = <<>>
    /\ ret = <<>>

PoolSpec == PoolInit /\ [][Next]_vars

-----------------------------------------------------------------------------
(* A run of one long month, for short and long recency windows (LongSpec) *)

\* cfg["turns_per_month"] of the long month
MaxLongTurns == 42

\* cfg["draw"]["recent_window"]: a short window, and one longer than the
\* recent list simulate_one keeps
LongWindows == {2, RecentCap + 1}

LongConfigs ==
    {[Config(150, 2, 1, MaxLongTurns) EXCEPT !.draw.recent_window = n] :
        n \in LongWindows}

\* the draws of the runs checked: E_CAR some times, then E_BONUS
InStream(ids) ==
    \E i \in 0 .. Len(ids) :
        \A j \in DOMAIN ids : ids[j] = IF j <= i THEN "E_CAR" ELSE "E_BONUS"

LongInit ==
    /\ cfg \in LongConfigs
    /\ stats = start_stats(cfg)
    /\ active = start_active
    /\ counters = [rent_arrears_months |-> 0]
    /\ seen_counts = EmptyDict
    /\ recent = <<>>
    /\ event_counts = EmptyDict
    /\ month = 0
    /\ turn = 0
    /\ pc = "month"
    /\ result = <<>>
    /\ rng = <<>>
    /\ tape = [s \in Seeds |-> <<>>]
    /\ call = <<>>
    /\ log = {}
    /\ tw = EmptyDict
    /\ hist = EmptyDict
    /\ catalog = events
    /\ drawn = <<>>
    /\ arg = <<>>
    /\ ret = <<>>

\* one turn whose random draws give an event of the stream
LongTurn == Turn /\ InStream(drawn')

LongNext == MonthTick \/ LongTurn \/ RentCycle \/ Complete

LongSpec == LongInit /\ [][LongNext]_vars

-----------------------------------------------------------------------------
(* The runs of main: calls of simulate_one on one generator (MCSpec) *)

\* the calls of simulate_one in a behaviour
MaxCalls == 3

\* the values a generator yields where its stream is not yet known
FreshDraws == {0, Grain - 1}

\* random.random() and random.choice calls in one turn
DrawsPerTurn == 3

MCConfigs == {Config(m, 1, 1, 1) : m \in {-150, 150}}

\* random.seed(seed) that leaves a generator already seeded as it is
random_seed_once(g, seed) == IF g = <<>> THEN <<seed, 0>> ELSE g

\* random.seed(seed): the generator g is at the start of the stream of seed
random_seed(g, seed) == <<seed, 0>>

\* the values the next n draws of generator g can yield: the stream of a seed
\* is fixed, tp holds the part of it that earlier draws have shown
random_values(g, tp, n) ==
    {us \in [1 .. n -> FreshDraws] :
        \A i \in 1 .. n : g[2] + i <= Len(tp[g[1]]) => us[i] = tp[g[1]][g[2] + i]}

\* tp once generator g has yielded the values us
shown(tp, g, us) ==
    [tp EXCEPT ![g[1]] =
        [i \in 1 .. Max(Len(@), g[2] + Len(us)) |->
            IF i <= Len(@) THEN @[i] ELSE us[i - g[2]]]]

MCInit ==
    /\ cfg \in MCConfigs
    /\ stats = start_stats(cfg)
    /\ active = start_active
    /\ counters = [rent_arrears_months |-> 0]
    /\ seen_counts = EmptyDict
    /\ recent = <<>>
    /\ event_counts = EmptyDict
    /\ month = 0
    /\ turn = 0
    /\ pc = "idle"
    /\ result = <<>>
    /\ rng = <<>>
    /\ tape = [s \in Seeds |-> <<>>]
    /\ call = <<>>
    /\ log = {}
    /\ tw = EmptyDict
    /\ hist = EmptyDict
    /\ catalog = events
    /\ drawn = <<>>
    /\ arg = <<>>
    /\ ret = <<>>

\* main calls simulate_one(events, states, cfg, seed): lines 227-246
StartCall(seed) ==
    /\ pc = "idle"
    /\ Len(call) < MaxCalls
    /\ call' = Append(call, seed)
    /\ rng' = random_seed(rng, seed)
    /\ stats' = start_stats(cfg)
    /\ active' = start_active
    /\ counters' = [rent_arrears_months |-> 0]
    /\ seen_counts' = EmptyDict
    /\ recent' = <<>>
    /\ drawn' = <<>>
    /\ event_counts' = EmptyDict
    /\ month' = 0
    /\ turn' = 0
    /\ pc' = "month"
    /\ result' = <<>>
    /\ UNCHANGED <<fixed, tape, log, tw, hist>>

\* one turn, the three random draws being the next values of the generator
MCTurn ==
    /\ pc = "turn"
    /\ \E us \in random_values(rng, tape, DrawsPerTurn) :
        /\ \E ev \in {draw_event(build_pools(catalog), active, seen_counts,
                                 recent, cfg, us[1], us[2])} :
              TurnWith(ev, random_choice(ev.choices, us[3]))
        /\ rng' = <<rng[1], rng[2] + DrawsPerTurn>>
        /\ tape' = shown(tape, rng, us)
    /\ UNCHANGED <<call, log, tw, hist>>

\* simulate_one returns to main
Return ==
    /\ pc \in {"Failed", "Completed"}
    /\ log' = log \cup {<<call[Len(call)], result>>}
    /\ pc' = "idle"
    /\ UNCHANGED <<fixed, stats, active, counters, seen_counts, recent, drawn,
                   event_counts, month, turn, result, rng, tape, call, tw, hist>>

MCNext ==
    \/ \E seed \in Seeds : StartCall(seed)
    \/ MonthTick
    \/ MCTurn
    \/ RentCycle
    \/ Complete
    \/ Return

MCSpec == MCInit /\ [][MCNext]_vars

-----------------------------------------------------------------------------
(* The operations on the active conditions, in any order (RegSpec) *)

\* add_state calls for an id since it was last absent, and monthly ticks
MaxAdds == 3
MaxTicks == 2

RegIds == {"S_INJURED", "S_TAX_DUE", "S_HIGH_INTEREST_LOAN"}

RegInit ==
    /\ cfg = Config(150, 1, 1, 1)
    /\ stats = start_stats(cfg)
    /\ active = <<>>
    /\ counters = [rent_arrears_months |-> 0]
    /\ seen_counts = EmptyDict
    /\ recent = <<>>
    /\ event_counts = EmptyDict
    /\ month = 0
    /\ turn = 0
    /\ pc = "idle"
    /\ result = <<>>
    /\ rng = <<>>
    /\ tape = [s \in Seeds |-> <<>>]
    /\ call = <<>>
    /\ log = {}
    /\ tw = EmptyDict
    /\ hist = EmptyDict
    /\ catalog = events
    /\ drawn = <<>>
    /\ arg = <<>>
    /\ ret = <<>>

\* add_state(active, state_index[sid])
RegAdd(sid) ==
    /\ Get(hist, sid, [adds |-> 0, ticks |-> 0]).adds < MaxAdds
    /\ active' = add_state(active, state_index[sid])
    /\ hist' = [k \in DOMAIN hist \cup {sid} |->
                  IF k # sid THEN hist[k]
                  ELSE IF Has(active, sid)
                       THEN [hist[k] EXCEPT !.adds = @ + 1]
                       ELSE [adds |-> 1, ticks |-> 0]]
    /\ UNCHANGED <<fixed, stats, counters, seen_counts, recent, drawn, event_counts,
                   month, turn, pc, result, rng, tape, call, log, tw>>

\* remove_state(active, sid)
RegRemove(sid) ==
    /\ Has(active, sid)
    /\ active' = remove_state(active, sid)
    /\ hist' = [k \in DOMAIN hist \ {sid} |-> hist[k]]
    /\ UNCHANGED <<fixed, stats, counters, seen_counts, recent, drawn, event_counts,
                   month, turn, pc, result, rng, tape, call, log, tw>>

\* apply_state_monthly(stats, active, state_index, counters, cfg, month), the
\* tick of the month
RegTick ==
    /\ month < MaxTicks
    /\ \E s \in {apply_state_monthly(stats, active, counters, cfg, month)} :
           /\ stats' = s.stats
           /\ active' = s.active
           /\ counters' = s.counters
           /\ hist' = [k \in {s.active[i].id : i \in DOMAIN s.active} |->
                         [hist[k] EXCEPT !.ticks = @ + 1]]
    /\ month' = month + 1
    /\ UNCHANGED <<fixed, seen_counts, recent, drawn, event_counts, turn, pc, result,
                   rng, tape, call, log, tw>>

RegNext ==
    \/ \E sid \in RegIds : RegAdd(sid)
    \/ \E sid \in RegIds : RegRemove(sid)
    \/ RegTick

RegSpec == RegInit /\ [][RegNext]_vars

\* the same operations on the paycheck, the layoff and the loan (TickSpec)
TickIds == {"S_PAYCHECK", "S_LAYOFF", "S_HIGH_INTEREST_LOAN"}

TickNext ==
    \/ \E sid \in TickIds : RegAdd(sid)
    \/ \E sid \in TickIds : RegRemove(sid)
    \/ RegTick

TickSpec == RegInit /\ [][TickNext]_vars

-----------------------------------------------------------------------------
(* tag_weights on any set of active conditions (TagSpec) *)

\* the ids that carry tag multipliers, and one that carries none
TagIds ==
    <<"S_LAYOFF", "S_RENT_ARREARS", "S_HIGH_INTEREST_LOAN", "S_CREDIT_CARD_DEBT",
      "S_INJURED", "S_HEALTH_SCARE", "S_IMMIGRATION_ISSUE", "S_CAR_BROKEN",
      "S_SOCIAL_ISOLATION", "S_WINDFALL_BUFFER", "S_RENT_DUE", "S_TAX_DUE",
      "S_TRAFFIC_TICKET", "S_COLLECTIONS_NOTICE", "S_PAYCHECK">>

\* the active dict that holds the ids of TagIds at the positions in I
ActiveOf(I) ==
    LET q == SelectSeq([i \in DOMAIN TagIds |-> i], LAMBDA i : i \in I)
    IN  [j \in DOMAIN q |-> [id |-> TagIds[q[j]], remaining |-> None]]

TagInit ==
    /\ cfg = Config(150, 1, 1, 1)
    /\ stats = start_stats(cfg)
    /\ active \in {ActiveOf(I) : I \in SUBSET DOMAIN TagIds}
    /\ counters = [rent_arrears_months |-> 0]
    /\ seen_counts = EmptyDict
    /\ recent = <<>>
    /\ event_counts = EmptyDict
    /\ month = 0
    /\ turn = 0
    /\ pc = "idle"
    /\ result = <<>>
    /\ rng = <<>>
    /\ tape = [s \in Seeds |-> <<>>]
    /\ call = <<>>
    /\ log = {}
    /\ tw = EmptyDict
    /\ hist = EmptyDict
    /\ catalog = events
    /\ drawn = <<>>
    /\ arg = <<>>
    /\ ret = <<>>

\* tw = tag_weights(active)
TagWeights ==
    /\ tw = EmptyDict
    /\ tw' = tag_weights(active)
    /\ UNCHANGED <<fixed, stats, active, counters, seen_counts, recent, drawn,
                   event_counts, month, turn, pc, result, rng, tape, call, log,
                   hist>>

TagNext == TagWeights

TagSpec == TagInit /\ [][TagNext]_vars

-----------------------------------------------------------------------------
(* weighted_choice on any items and weights (WcSpec) *)

\* the candidates of a call, and the weights a candidate can have
MaxItems == 3
ItemNames == <<"first", "second", "third", "fourth">>
WeightValues == {<<0, 1>>, <<1, 2>>, <<1, 1>>, <<2, 1>>}

WcArgs ==
    {[items |-> SubSeq(ItemNames, 1, Len(ws)), weights |-> ws, u |-> u] :
        ws \in UNION {[1 .. n -> WeightValues] : n \in 1 .. MaxItems},
        u \in 0 .. Grain - 1}

WcInit ==
    /\ cfg = Config(150, 1, 1, 1)
    /\ stats = start_stats(cfg)
    /\ active = <<>>
    /\ counters = [rent_arrears_months |-> 0]
    /\ seen_counts = EmptyDict
    /\ recent = <<>>
    /\ event_counts = EmptyDict
    /\ month = 0
    /\ turn = 0
    /\ pc = "idle"
    /\ result = <<>>
    /\ rng = <<>>
    /\ tape = [s \in Seeds |-> <<>>]
    /\ call = <<>>
    /\ log = {}
    /\ tw = EmptyDict
    /\ hist = EmptyDict
    /\ catalog = events
    /\ drawn = <<>>
    /\ arg \in WcArgs
    /\ ret = <<>>

\* ret = weighted_choice(items, weights), random.random() yielding u / Grain
WeightedChoice ==
    /\ ret = <<>>
    /\ ret' = <<weighted_choice(arg.items, arg.weights, arg.u)>>
    /\ UNCHANGED <<cfg, stats, active, counters, seen_counts, recent,
                   event_counts, month, turn, pc, result, rng, tape, call, log,
                   tw, hist, catalog, drawn, arg>>

WcNext == WeightedChoice

WcSpec == WcInit /\ [][WcNext]_vars

-----------------------------------------------------------------------------
(* Claims about a run (Spec, FairSpec) *)

Terminal == {"Failed", "Completed"}

\* the strike count of the current state
Strikes == fatal_strikes(stats, active, counters, cfg)

ProbeDeltas == {-1000, -101, -1, 0, 1, 101, 1000}

\* C1: in every state of a run health, stress, family and friendship are in
\* [0,100], and apply_effects keeps them there for any delta, large or
\* negative; money is not clamped: it moves by exactly the delta.
C1_ClampedStatsInRange ==
    /\ \A k \in ClampedKeys : stats[k] \in 0 .. 100
    /\ \A k \in ClampedKeys : \A dv \in ProbeDeltas :
          apply_effects(stats, [x \in {k} |-> dv])[k] \in 0 .. 100
    /\ \A dv \in ProbeDeltas :
          apply_effects(stats, [money |-> dv]).money = stats.money + dv

\* a choice has pushed family and stress to the ends of the range while
\* money is negative
C1_Witness ==
    /\ stats.family = 100
    /\ stats.stress = 0
    /\ stats.money < 0

\* C2: an evaluation point (the end of a turn, the end of a rent cycle) whose
\* strike count reaches collections_strikes ends the run there as a failure,
\* and nothing runs after a failure.
C2_TerminationMonotonic ==
    [][ /\ (pc \in {"turn", "rent"}
            /\ fatal_strikes(stats', active', counters', cfg)
                 >= cfg.thresholds.collections_strikes)
           => (pc' = "Failed" /\ result'[1] = FALSE /\ month' = month
               /\ turn' = turn)
        /\ pc # "Failed" ]_vars

\* a run of two months has failed in its first month
C2_Witness ==
    /\ pc = "Failed"
    /\ month = 0
    /\ cfg.max_months = 2

\* C3: a run ends, in exactly one of Failed (returns False, the strike count
\* has reached the threshold) and Completed (returns True, after exactly
\* max_months months, the strike count below the threshold); before the end
\* nothing is returned.
C3_ExactlyOneTerminal ==
    /\ <>[](pc \in Terminal)
    /\ [](pc = "Completed"
            => /\ result[1] = TRUE
               /\ month = cfg.max_months
               /\ Strikes < cfg.thresholds.collections_strikes)
    /\ [](pc = "Failed"
            => /\ result[1] = FALSE
               /\ month < cfg.max_months
               /\ Strikes >= cfg.thresholds.collections_strikes)
    /\ [](pc \notin Terminal => result = <<>>)

\* a run of two months has completed
C3_Witness ==
    /\ pc = "Completed"
    /\ cfg.max_months = 2
    /\ month = 2

\* the rent of the current month, and whether the rent check that starts in
\* this state pays it
RentNow == rent_of(month, cfg)
RentDue == Has(active, "S_RENT_DUE")
Arrears == Has(active, "S_RENT_ARREARS")

\* C4 as stated: at the start of every month-end rent check S_RENT_DUE is
\* active, and the check either pays the rent or installs the arrears
\* condition, never both and never neither.
C4_Original ==
    [][ pc = "rent"
        => /\ RentDue
           /\ (stats'.money = stats.money - RentNow)
                # (stats' = stats /\ Has(active', "S_RENT_ARREARS")) ]_vars

\* C4 amended: a rent check that starts with S_RENT_DUE active pays the rent
\* (money >= rent: money falls by the rent, the arrears condition is as it
\* was) or installs the arrears condition (money < rent: the stats are as they
\* were), never both and never neither; a rent check that starts without
\* S_RENT_DUE (a choice removed it) does neither.
C4_RentCheckWhenDue ==
    [][ pc = "rent"
        => /\ (RentDue /\ stats.money >= RentNow)
                => /\ stats'.money = stats.money - RentNow
                   /\ Has(active', "S_RENT_ARREARS") = Arrears
           /\ (RentDue /\ stats.money < RentNow)
                => /\ stats' = stats
                   /\ Has(active', "S_RENT_ARREARS")
           /\ ~RentDue
                => /\ stats' = stats
                   /\ Has(active', "S_RENT_ARREARS") = Arrears ]_vars

\* a rent check starts without S_RENT_DUE, with money for the rent
C4_Witness ==
    /\ pc = "rent"
    /\ ~RentDue
    /\ stats.money >= RentNow

\* the first evaluation of a run has just been made (after the first turn)
FirstCheckDone ==
    /\ month = 0
    /\ Len(recent) = 1
    /\ pc \in {"turn", "rent", "Failed"}

SetupIds == {"S_RENT_DUE", "S_PAYCHECK"}

\* C8 as stated: starting money below money_hard and no conditions but the
\* ones Setup installs: the first termination check counts a strike and ends
\* the run as a failure.
C8_Original ==
    (/\ FirstCheckDone
     /\ cfg.attrs.money.start < cfg.thresholds.money_hard
     /\ {active[i].id : i \in DOMAIN active} = SetupIds)
    => (Strikes >= 1 /\ pc = "Failed")

\* C8 amended: the first termination check comes after the first monthly tick
\* and the first choice; if money is still below money_hard there it counts a
\* strike, and it ends the run as a failure exactly when the count reaches
\* collections_strikes.
C8_FirstCheck ==
    (/\ FirstCheckDone
     /\ cfg.attrs.money.start < cfg.thresholds.money_hard
     /\ {active[i].id : i \in DOMAIN active} = SetupIds)
    => /\ stats.money < cfg.thresholds.money_hard => Strikes >= 1
       /\ (pc = "Failed") = (Strikes >= cfg.thresholds.collections_strikes)

\* started below money_hard, still below it at the first check: failed
C8_Witness ==
    /\ FirstCheckDone
    /\ cfg.attrs.money.start < cfg.thresholds.money_hard
    /\ {active[i].id : i \in DOMAIN active} = SetupIds
    /\ stats.money < cfg.thresholds.money_hard
    /\ pc = "Failed"

\* C9 as stated: after a rent check that pays the rent the arrears condition
\* is not active.
C9_Original ==
    [][ (pc = "rent" /\ RentDue /\ stats.money >= RentNow)
        => ~Has(active', "S_RENT_ARREARS") ]_vars

\* C9 amended: a rent check that pays the rent leaves the arrears condition
\* and its counter as they were (only a choice's remove_states list clears
\* the arrears condition).
C9_PaymentKeepsArrears ==
    [][ (pc = "rent" /\ RentDue /\ stats.money >= RentNow)
        => /\ Has(active', "S_RENT_ARREARS") = Arrears
           /\ counters' = counters ]_vars

\* a rent check that will pay starts with the arrears condition active
C9_Witness ==
    /\ pc = "rent"
    /\ RentDue
    /\ stats.money >= RentNow
    /\ Arrears
    /\ counters.rent_arrears_months >= 1

\* C10: whenever S_RENT_ARREARS is not active, rent_arrears_months is 0.
C10_CounterZeroWithoutArrears ==
    ~Arrears => counters.rent_arrears_months = 0

\* the arrears condition was installed in month 0 (E_LOAN left money below the
\* rent), counted in month 1, and removed by the choice of E_LANDLORD
C10_Witness ==
    /\ month = 1
    /\ pc = "rent"
    /\ recent = <<"E_LOAN", "E_LANDLORD">>
    /\ stats.money < 0
    /\ ~Arrears
    /\ counters.rent_arrears_months = 0

\* C14: after every month-end rent check, whether it paid the rent, installed
\* the arrears condition or found no rent due, S_RENT_DUE is active.
C14_RentDueReinstalled ==
    [][ pc = "rent" => Has(active', "S_RENT_DUE") ]_vars

\* the choice of E_LANDLORD paid the rent and removed S_RENT_DUE (money
\* 150 + 300 - 125), the rent check of month 0 found no rent due, and
\* S_RENT_DUE is active after it
C14_Witness ==
    /\ pc = "month"
    /\ month = 1
    /\ drawn = <<"E_LANDLORD">>
    /\ cfg.attrs.money.start = 150
    /\ stats.money = 325
    /\ Keys(active) = <<"S_PAYCHECK", "S_RENT_DUE">>

\* C15: a rent check with rent due and money < rent leaves money and every
\* other stat (and the counters) as they were; one with money >= rent takes
\* exactly the rent, and money is not below zero after it.
C15_AllOrNothing ==
    [][ (pc = "rent" /\ RentDue)
        => /\ stats.money < RentNow
                => (stats' = stats /\ counters' = counters)
           /\ stats.money >= RentNow
                => /\ stats'.money = stats.money - RentNow
                   /\ stats'.money >= 0 ]_vars

\* a rent check with rent due starts with some money, less than the rent
C15_Witness ==
    /\ pc = "rent"
    /\ RentDue
    /\ stats.money > 0
    /\ stats.money < RentNow

\* the three signals of the current state
MoneySignal == stats.money < cfg.thresholds.money_hard
ArrearsSignal ==
    Arrears /\ counters.rent_arrears_months >= cfg.thresholds.eviction_months
StatSignal ==
    \/ stats.health <= 0
    \/ stats.family <= 0
    \/ stats.friendship <= 0
    \/ stats.stress >= 100
Count(b) == IF b THEN 1 ELSE 0

\* C16: fatal_strikes is the number of the three signals that hold, in 0..3,
\* and rent_arrears_months counts the monthly ticks since S_RENT_ARREARS last
\* became active: a monthly tick adds one to it exactly when the condition is
\* active, it is 0 when the condition becomes active and whenever it is not
\* active, and no other step changes it while the condition stays active.
C16_StrikeCount ==
    /\ [](/\ Strikes = Count(MoneySignal) + Count(ArrearsSignal)
                          + Count(StatSignal)
          /\ Strikes \in 0 .. 3
          /\ ~Arrears => counters.rent_arrears_months = 0)
    /\ [][ IF pc = "month" /\ pc' # "Completed"
           THEN counters'.rent_arrears_months
                  = counters.rent_arrears_months + Count(Arrears)
           ELSE /\ (Arrears /\ Arrears') => counters' = counters
                /\ (~Arrears /\ Arrears') => counters'.rent_arrears_months = 0
         ]_vars

\* a run has failed on two signals at once: money below money_hard, and the
\* arrears condition installed in month 0 and counted by the tick of month 1
C16_Witness ==
    /\ pc = "Failed"
    /\ Strikes = 2
    /\ MoneySignal
    /\ ArrearsSignal
    /\ ~StatSignal
    /\ counters.rent_arrears_months = 1

\* some choice of event id names sid in its remove_states list
CanRemove(id, sid) ==
    \E i \in DOMAIN catalog : \E j \in DOMAIN catalog[i].choices :
        /\ catalog[i].id = id
        /\ \E k \in DOMAIN Get(catalog[i].choices[j], "remove_states", <<>>) :
              catalog[i].choices[j].remove_states[k] = sid

\* C18: the counter-kind condition S_RENT_ARREARS (the registry gives it a
\* duration, which is not used) is active with the indefinite marker, and a
\* step from a state where it is active leaves it active with the marker,
\* the monthly tick and the repeated add_state of the rent check included,
\* unless the step is a turn whose event has a choice that names it in
\* remove_states.
C18_CounterPersists ==
    /\ [](Arrears => Remaining(active, "S_RENT_ARREARS") = None)
    /\ [][ Arrears
           => \/ Arrears' /\ Remaining(active', "S_RENT_ARREARS") = None
              \/ /\ pc = "turn"
                 /\ drawn' # drawn
                 /\ CanRemove(drawn'[Len(drawn')], "S_RENT_ARREARS") ]_vars

\* the arrears condition was installed by the rent check of month 0, went
\* through the tick of month 1 and was added again by the rent check of
\* month 1, which did not pay
C18_Witness ==
    /\ pc = "month"
    /\ month = 2
    /\ Arrears
    /\ Remaining(active, "S_RENT_ARREARS") = None
    /\ counters.rent_arrears_months = 1
    /\ stats.money < 0

\* the five stats
StatKeys == {"money", "health", "stress", "family", "friendship"}

\* the mapping eff without the keys that are not stats, and with one more key
KnownOnly(eff) == [k \in DOMAIN eff \cap StatKeys |-> eff[k]]
WithKey(eff, key, dv) ==
    [k \in DOMAIN eff \cup {key} |-> IF k = key THEN dv ELSE eff[k]]

\* the record d (a choice, a condition definition) with its effect mapping
\* under field f replaced by g of it
OnEffects(d, f, g(_)) ==
    IF f \in DOMAIN d THEN [k \in DOMAIN d |-> IF k = f THEN g(d[k]) ELSE d[k]]
    ELSE d

\* the effect mapping under field f of the record d has a key that is not a stat
HasUnknown(d, f) == f \in DOMAIN d /\ DOMAIN d[f] \ StatKeys # {}

AllChoices ==
    UNION {{events[i].choices[j] : j \in DOMAIN events[i].choices} :
              i \in DOMAIN events}

UnknownKeys == {"luck", "karma"}
UnknownDeltas == {-1000, 7}

\* C13: in every state of a run the stats have the five keys and no other,
\* and there an effect key that is not a stat is ignored: apply_effects of an
\* unknown key alone changes nothing, and every choice of the catalog
\* (apply_choice) and every monthly effect of the registry
\* (apply_state_monthly) gives the same stats with its unknown keys removed,
\* and with one more unknown key added.
C13_UnknownKeysIgnored ==
    /\ DOMAIN stats = StatKeys
    /\ \A key \in UnknownKeys : \A dv \in UnknownDeltas :
          apply_effects(stats, [x \in {key} |-> dv]) = stats
    /\ \A ch \in AllChoices :
          \E r \in {apply_choice(stats, ch, active, counters, cfg, month)} :
          /\ DOMAIN r.stats = StatKeys
          /\ HasUnknown(ch, "effects")
                => r = apply_choice(stats, OnEffects(ch, "effects", KnownOnly),
                                    active, counters, cfg, month)
          /\ r = apply_choice(stats,
                              OnEffects(ch, "effects",
                                        LAMBDA e : WithKey(e, "karma", 7)),
                              active, counters, cfg, month)
    /\ \A i \in DOMAIN states :
          \E r \in {apply_effects(stats, monthly_effects(states[i], stats, active,
                                                         cfg, month))} :
          /\ DOMAIN r = StatKeys
          /\ HasUnknown(states[i], "monthly_effect")
                => r = apply_effects(stats,
                         monthly_effects(OnEffects(states[i], "monthly_effect",
                                                   KnownOnly),
                                         stats, active, cfg, month))
          /\ r = apply_effects(stats,
                    monthly_effects(
                        OnEffects(states[i], "monthly_effect",
                                  LAMBDA e : WithKey(e, "luck", -7)),
                        stats, active, cfg, month))

\* the tick of month 1 has applied the monthly effect of S_LAYOFF (with the
\* key karma) and the turn the choice of E_PAPERWORK (with the key luck)
C13_Witness ==
    /\ month = 1
    /\ pc = "rent"
    /\ drawn = <<"E_LAYOFF", "E_PAPERWORK">>
    /\ Has(active, "S_LAYOFF")
    /\ DOMAIN stats = StatKeys

-----------------------------------------------------------------------------
(* Claims about the calls of main (MCSpec) *)

\* C5: two finished calls of simulate_one with the same seed (and the same
\* events, states and config) have returned the same triple: outcome, count of
\* distinct events, per-event trigger counts, whatever calls, with whatever
\* seeds, ran before them.
C5_Deterministic ==
    \A a \in log : \A b \in log : a[1] = b[1] => a[2] = b[2]

\* seed 1 has run, then seed 2 (with another result), then seed 1 again
C5_Witness ==
    /\ call = <<1, 2, 1>>
    /\ pc = "idle"
    /\ \E a \in log : \E b \in log : a[1] = 1 /\ b[1] = 2 /\ a[2] # b[2]

-----------------------------------------------------------------------------
(* Claims about tag_weights (TagSpec) *)

\* C6: for every set of active conditions tag_weights returns a weight for
\* each of the eight tags, and each weight is in [0.75, 1.55].
C6_TagWeightsInRange ==
    tw # EmptyDict
    => /\ DOMAIN tw = TagSet
       /\ Cardinality(DOMAIN tw) = 8
       /\ \A t \in TagSet : RLeq(<<3, 4>>, tw[t]) /\ RLeq(tw[t], <<31, 20>>)

\* a call that clamps money at 0.75 and debt at 1.55 and leaves car at 1
C6_Witness ==
    /\ tw # EmptyDict
    /\ tw["money"] = <<3, 4>>
    /\ tw["debt"] = <<31, 20>>
    /\ tw["car"] = <<1, 1>>

-----------------------------------------------------------------------------
(* Claims about add_state (RegSpec) *)

\* C7: a transient condition with stacking policy extend and duration d that
\* was absent and then added k times with no monthly tick since has
\* remaining = k * d.
C7_ExtendAccumulates ==
    \A i \in DOMAIN active :
        LET sdef == state_index[active[i].id] IN
        (/\ sdef.type # "counter"
         /\ "duration" \in DOMAIN sdef
         /\ Get(sdef, "stacking", "refresh") = "extend"
         /\ hist[sdef.id].ticks = 0)
        => active[i].remaining = Some(hist[sdef.id].adds * sdef.duration)

\* S_INJURED (extend, duration 3) added twice, no tick: remaining = 6
C7_Witness ==
    /\ Has(active, "S_INJURED")
    /\ hist["S_INJURED"] = [adds |-> 2, ticks |-> 0]
    /\ Remaining(active, "S_INJURED") = Some(6)

-----------------------------------------------------------------------------
(* Claims about weighted_choice (WcSpec) *)

\* the draw r = random.random() * sum(weights) of the call under study
WcDraw == RMul(Rat(arg.u, Grain), cumulative(arg.weights, Len(arg.weights)))

\* the first position whose cumulative weight is >= the draw, 0 if there is none
WcFirst ==
    LET hits == {i \in DOMAIN arg.weights :
                    RLeq(WcDraw, cumulative(arg.weights, i))}
    IN  IF hits = {} THEN 0 ELSE CHOOSE i \in hits : \A j \in hits : i <= j

ZeroPool == \A i \in DOMAIN arg.weights : arg.weights[i][1] = 0

\* C11 as stated: weighted_choice returns the first candidate whose cumulative
\* weight is >= the draw, and the last candidate when every weight is zero.
C11_Original ==
    ret # <<>>
    => /\ ~ZeroPool => WcFirst > 0 /\ ret[1] = arg.items[WcFirst]
       /\ ZeroPool => ret[1] = arg.items[Len(arg.items)]

\* C11 amended: weighted_choice returns the first candidate, in iteration
\* order, whose cumulative weight is >= the draw; for weights >= 0 there is
\* always one, and when every weight is zero it is the first candidate.
C11_FirstAtOrAboveDraw ==
    ret # <<>>
    => /\ WcFirst > 0
       /\ ret[1] = arg.items[WcFirst]
       /\ ZeroPool => ret[1] = arg.items[1]

\* a call on three candidates of weight zero has returned the first
C11_Witness ==
    /\ ret = <<"first">>
    /\ Len(arg.items) = 3
    /\ ZeroPool

-----------------------------------------------------------------------------
(* Claims about a catalog with an empty pool (PoolSpec) *)

\* C12: a run on a catalog that has no event for some tag is rejected at
\* startup: when the run is rejected (the KeyError of pools[tag] is the
\* only rejection there is), no month has been simulated, no stat has been
\* changed and no event has been drawn.
C12_Original ==
    pc = "KeyError"
    => /\ month = 0
       /\ turn = 0
       /\ stats = start_stats(cfg)
       /\ drawn = <<>>

-----------------------------------------------------------------------------
(* Claims about the monthly tick and add_state (TickSpec) *)

\* C17: in a monthly tick at whose start both S_PAYCHECK and S_LAYOFF are
\* active the monthly effect of S_PAYCHECK is not applied (the tick leaves
\* the stats as the tick without S_PAYCHECK leaves them), whatever the order
\* in which the two were added and even when S_LAYOFF expires in that tick.
C17_Original ==
    [][ (/\ month' = month + 1
         /\ Has(active, "S_PAYCHECK")
         /\ Has(active, "S_LAYOFF"))
        => stats' = apply_state_monthly(stats, remove_state(active, "S_PAYCHECK"),
                                        counters, cfg, month).stats ]_vars

\* the transient conditions of TickIds with a duration and the stacking
\* policy refresh, given or by default
RefreshIds ==
    {sid \in TickIds :
        /\ state_index[sid].type # "counter"
        /\ "duration" \in DOMAIN state_index[sid]
        /\ Get(state_index[sid], "stacking", "refresh") = "refresh"}

\* the step is an add_state call for sid
Added(sid) ==
    /\ Has(active', sid)
    /\ Has(active, sid) => hist'[sid].adds = hist[sid].adds + 1

\* C19: for a transient condition with the policy refresh (given or by
\* default) and duration d, add_state sets remaining to d whatever it was
\* before (absent, d, or less after ticks), and a second add_state right
\* after it changes nothing.
C19_RefreshResets ==
    /\ [](\A sid \in RefreshIds :
            LET sdef == state_index[sid]
                once == add_state(active, sdef)
            IN  /\ Has(once, sid)
                /\ Remaining(once, sid) = Some(sdef.duration)
                /\ add_state(once, sdef) = once)
    /\ [][ \A sid \in RefreshIds :
             Added(sid)
             => /\ Remaining(active', sid) = Some(state_index[sid].duration)
                /\ (Has(active, sid) /\ hist[sid].ticks = 0) => active' = active
         ]_vars

\* S_HIGH_INTEREST_LOAN (refresh, duration 3) was added, ticked down to 2 and
\* added again: remaining is 3; S_LAYOFF (no policy, duration 2) was added
\* twice: remaining is 2
C19_Witness ==
    /\ Has(active, "S_HIGH_INTEREST_LOAN")
    /\ hist["S_HIGH_INTEREST_LOAN"] = [adds |-> 2, ticks |-> 1]
    /\ Remaining(active, "S_HIGH_INTEREST_LOAN") = Some(3)
    /\ Has(active, "S_LAYOFF")
    /\ hist["S_LAYOFF"] = [adds |-> 2, ticks |-> 0]
    /\ Remaining(active, "S_LAYOFF") = Some(2)

-----------------------------------------------------------------------------
(* Claims about the recency penalty (LongSpec) *)

\* the ids among the last n of the ids drawn so far in the run
LastDrawn(n) == {drawn[i] : i \in Max(1, Len(drawn) - n + 1) .. Len(drawn)}

\* the weight draw_event gives ev in the current state is its weight without
\* the recency penalty times recent_penalty
Penalised(ev) ==
    event_weight(ev, seen_counts, recent, cfg)
      = RMul(event_weight(ev, seen_counts, <<>>, cfg), cfg.draw.recent_penalty)

\* C20 as stated: at a draw, the recency penalty is applied to a candidate
\* exactly when its id is among the last N ids drawn in the run, N being
\* the configured window.
C20_Original ==
    pc = "turn"
    => \A i \in DOMAIN catalog :
          Penalised(catalog[i])
            <=> catalog[i].id \in LastDrawn(cfg.draw.recent_window)

\* C20 amended: at a draw, the recency penalty is applied to a candidate
\* exactly when its id is among the last min(N, 40) ids drawn in the run.
C20_PenaltyWithinKeptWindow ==
    pc = "turn"
    => \A i \in DOMAIN catalog :
          Penalised(catalog[i])
            <=> catalog[i].id
                  \in LastDrawn(Min(cfg.draw.recent_window, RecentCap))

\* a draw with window 41, after E_CAR and then 40 times E_BONUS: E_CAR is
\* among the last 41 drawn, not in the recent list, and not penalised
C20_Witness ==
    /\ pc = "turn"
    /\ cfg.draw.recent_window = RecentCap + 1
    /\ Len(drawn) = RecentCap + 1
    /\ drawn[1] = "E_CAR"
    /\ \A i \in DOMAIN recent : recent[i] = "E_BONUS"
    /\ \E i \in DOMAIN catalog : catalog[i].id = "E_CAR" /\ ~Penalised(catalog[i])

-----------------------------------------------------------------------------
(* Claims about the two scaling paths (Spec) *)

\* effect mappings applied on both paths: positive and negative money, a
\* recoverable gain, stress, and a mapping with several keys
SampleEffects ==
    {[money |-> 50], [money |-> 20], [money |-> -50],
     [health |-> 5, stress |-> 3], [money |-> 30, family |-> 4, luck |-> 2]}

\* the stats after apply_choice of a choice that has only the effects eff
AsChoice(eff) ==
    apply_choice(stats, [effects |-> eff], active, counters, cfg, month).stats

\* the stats after the monthly effect eff of one condition is applied
AsMonthly(eff) ==
    apply_effects(stats,
                  monthly_effects([monthly_effect |-> eff], stats, active, cfg, month))

\* C21: for the same stats, active conditions, month and effect mapping,
\* applying the mapping as a choice's immediate effects and applying it as a
\* condition's monthly effect change every stat by the same amount, a positive
\* money delta while S_HIGH_INTEREST_LOAN is active included.
C21_Original ==
    \A eff \in SampleEffects : AsChoice(eff) = AsMonthly(eff)

-----------------------------------------------------------------------------
(* Claims about the lifetime of a transient condition (TickSpec) *)

\* the transient conditions that are installed with a number of months
Timed(sid) ==
    /\ state_index[sid].type # "counter"
    /\ "duration" \in DOMAIN state_index[sid]

\* the keys named by the monthly effects of the active conditions other than sid
Touched(sid) ==
    UNION {DOMAIN Get(state_index[active[i].id], "monthly_effect", EmptyDict) :
              i \in {j \in DOMAIN active : active[j].id # sid}}

\* this step applies the monthly effect of sid: every stat that it names, and
\* that no other active condition names, moves by the scaled delta
EffectApplied(sid) ==
    LET eff == monthly_effects(state_index[sid], stats, active, cfg, month)
    IN  \A k \in (DOMAIN eff \cap DOMAIN stats) \ Touched(sid) :
            stats'[k] = apply_effects(stats, eff)[k]

-----------------------------------------------------------------------------
(* Claims about the accounting of a run (Spec) *)

\* the sum of the counts that d holds for the ids in K
RECURSIVE SumOver(_, _)
SumOver(d, K) ==
    IF K = {} THEN 0
    ELSE LET k == CHOOSE x \in K : TRUE IN d[k] + SumOver(d, K \ {k})

Total(d) == SumOver(d, DOMAIN d)

\* C23: between the operations of a run seen_counts and event_counts hold the
\* same count for every event id, and the counts sum to the number of turns
\* executed so far; the count of distinct events that a run returns is the
\* number of event ids with a trigger count >= 1, and the trigger counts of a
\* successful run sum to max_months * turns_per_month.
C23_RunAccounting ==
    /\ \A id \in EventIds : Get(seen_counts, id, 0) = Get(event_counts, id, 0)
    /\ DOMAIN seen_counts \subseteq EventIds
    /\ DOMAIN event_counts \subseteq EventIds
    /\ Total(seen_counts) = Len(drawn)
    /\ Total(event_counts) = Len(drawn)
    /\ pc \in {"turn", "rent"}
       => Len(drawn) = month * cfg.turns_per_month + turn
    /\ pc \in {"Failed", "Completed"}
       => /\ result[3] = event_counts
          /\ result[2] = Cardinality({id \in EventIds : Get(result[3], id, 0) >= 1})
    /\ pc = "Completed"
       => /\ result[1] = TRUE
          /\ Total(result[3]) = cfg.max_months * cfg.turns_per_month

\* a successful run of two turns that drew the same event twice: one
\* distinct event, trigger counts that sum to two
C23_Witness ==
    /\ pc = "Completed"
    /\ result[1] = TRUE
    /\ result[2] = 1
    /\ Total(result[3]) = 2
    /\ cfg.max_months * cfg.turns_per_month = 2

====
